---- MODULE Spec2Model ----
(***************************************************************************)
(* A model of simpleWorkflow: the polling loop of DynamicTaskScheduler     *)
(* (start_scheduler), the reloader thread (update_tasks), the completion   *)
(* ledger of TaskScheduler (completed_tasks), and the date-range loops of  *)
(* ScriptExecutor with the expression parser of TimeParser.                *)
(***************************************************************************)
EXTENDS Integers, Sequences, FiniteSets, TLC

VARIABLES
    tasks,            \* self.tasks: the list object the attribute names now
    completed_tasks,  \* self.completed_tasks: name -> ledger entry (a dict)
    s_pc,             \* where the scheduler loop (the main thread) is
    current_time,     \* the "%H:%M" string sampled at the top of the tick
    iter_live,        \* the tick's iterator walks the list self.tasks names now
    iter_old,         \* else: the (replaced, hence frozen) list object it walks
    idx,              \* the iterator's index: tasks taken so far in this tick
    block_ok,         \* execute_task's local `success` (the block's result)
    sub_idx,          \* the subtask execute_task's generator is at
    r_pc,             \* where the reloader thread (update_tasks) is
    yaml_data,        \* update_tasks' local: the document it loaded
    r_idx,            \* update_tasks' position in its `for task_data in tasks`
    executions,       \* history: execute_task calls so far, per task name
    tick_seen,        \* history: the list the finished tick has iterated over
    last_complete,    \* history: the last list a reload built to its end
    tick_ok,          \* history: the complete lists live during this tick
    success_writes,   \* history: times the loop wrote "success" for a name
    notifications,    \* history: send_notification calls so far, per name
    last_run,         \* history: the execute_task call under way or just ended
    gave_up,          \* history: names handle_failure found out of attempts
    unsent,           \* history: names whose notification was not delivered
    tick_done,        \* history: names written success in the for-loop under way
    parser_now,       \* TimeParser.current_time, taken when it was built
    script,           \* execute_scripts' argument: the block being run
    stack,            \* the frames of execute_scripts and run_while_block
    x_result,         \* what execute_scripts has returned (or raised)
    failed_scripts,   \* self.failed_scripts
    run_log,          \* history: run_script's commands and results, in order
    iter_log,         \* history: the loop iterations begun, in order
    p_text,           \* the text a TimeParser method is called with
    p_call,           \* the TimeParser method called ("none": not yet)
    p_out             \* what the method returned or raised

schedVars == <<tasks, completed_tasks, s_pc, current_time, iter_live, iter_old,
               idx, block_ok, sub_idx, r_pc, yaml_data, r_idx, executions,
               tick_seen, last_complete, tick_ok, success_writes, notifications,
               last_run, gave_up, unsent, tick_done>>

execVars == <<parser_now, script, stack, x_result, failed_scripts, run_log,
              iter_log>>

parseVars == <<p_text, p_call, p_out>>

vars == <<schedVars, execVars, parseVars>>

----------------------------------------------------------------------------
(* Inputs: the documents the YAML file may hold when it is read.           *)

\* TaskScheduler.__init__'s max_attempts as run.py passes it.
DefaultMaxAttempts == 3

\* Python's None for a task's "time".
TimeNone == <<"None">>

Times == {"06:00", "12:00"}

Names == {"A", "B", "S"}

\* A (no schedule, one attempt) and B depending on A.
DocAB ==
    << [task |-> [name |-> "A", max_attempts |-> 1, block |-> "a"]],
       [task |-> [name |-> "B", depend_on |-> <<"A">>, block |-> "b"]] >>

\* An item that is no task, a scheduled task with two subtasks (the first
\* with a time, a dependency and an attempt budget of its own), and a second
\* task of the same name with another attempt budget.
DocSched ==
    << [config |-> "x"],
       [task |-> [name |-> "A", time |-> <<"06:00">>, max_attempts |-> 2,
                  block |-> "a",
                  subtasks |-> <<[name |-> "S", block |-> "s", time |-> <<"12:00">>,
                                  depend_on |-> <<"B">>, max_attempts |-> 1],
                                 [name |-> "T", block |-> "t"]>>]],
       [task |-> [name |-> "B", depend_on |-> <<"A">>, block |-> "b"]],
       [task |-> [name |-> "A", max_attempts |-> 3, block |-> "a2"]] >>

\* A well-formed entry followed by one that lacks its block.
DocNoBlock ==
    << [task |-> [name |-> "A", max_attempts |-> 1, block |-> "a"]],
       [task |-> [name |-> "B", depend_on |-> <<"A">>]] >>

Sources == <<DocAB, DocSched, DocNoBlock>>

\* What a block or a subtask's block does when it is run: execute_scripts
\* returns True, returns False, or raises (a date expression that does not
\* parse).
Results == {"ok", "fail", "raise"}

----------------------------------------------------------------------------
(* TimeParser. A text is the tuple of its characters; an instant is a      *)
(* count of seconds from 2000-01-01 00:00:00, a timedelta a count of       *)
(* seconds. A failed parse (ValueError) is the record Invalid, and the     *)
(* None parse_expression returns is NoneValue. A value used more than once *)
(* is bound by a one-element set, { body(v) : v \in {value} }.             *)

DigitChars == <<"0", "1", "2", "3", "4", "5", "6", "7", "8", "9">>

IsDigit(c) == \E i \in DOMAIN DigitChars : DigitChars[i] = c

DigitVal(c) == (CHOOSE i \in DOMAIN DigitChars : DigitChars[i] = c) - 1

LetterChars ==
    {"a", "b", "c", "d", "e", "f", "g", "h", "i", "j", "k", "l", "m", "n", "o",
     "p", "q", "r", "s", "t", "u", "v", "w", "x", "y", "z",
     "A", "B", "C", "D", "E", "F", "G", "H", "I", "J", "K", "L", "M", "N", "O",
     "P", "Q", "R", "S", "T", "U", "V", "W", "X", "Y", "Z"}

\* The class \d.
DigitClass == {DigitChars[i] : i \in DOMAIN DigitChars}

\* The class [A-Za-z0-9_] of parse_expression's name group.
NameClass == DigitClass \cup LetterChars \cup {"_"}

\* int() of the digits text[from..to].
RECURSIVE ToInt(_, _, _)
ToInt(text, from, to) ==
    IF to < from THEN 0
    ELSE 10 * ToInt(text, from, to - 1) + DigitVal(text[to])

\* The end of the longest run of characters of a class starting at pos
\* (pos - 1 when there is none): a greedy + or *.
RECURSIVE RunEnd(_, _, _)
RunEnd(text, pos, class) ==
    IF pos <= Len(text) /\ text[pos] \in class THEN RunEnd(text, pos + 1, class)
    ELSE pos - 1

Invalid == [ok |-> FALSE]

NoneValue == [ok |-> FALSE, none |-> TRUE]

Valid(v) == [ok |-> TRUE, value |-> v]

IsLeap(y) == (y % 4 = 0 /\ y % 100 # 0) \/ y % 400 = 0

DaysInMonth(y, m) ==
    IF m = 2 THEN (IF IsLeap(y) THEN 29 ELSE 28)
    ELSE IF m \in {4, 6, 9, 11} THEN 30 ELSE 31

\* Days from 2000-01-01 to the civil date (proleptic Gregorian, as datetime).
DaysFromCivil(y, m, d) ==
    LET yy  == IF m <= 2 THEN y - 1 ELSE y
        era == yy \div 400
        yoe == yy - era * 400
        mp  == IF m > 2 THEN m - 3 ELSE m + 9
        doy == (153 * mp + 2) \div 5 + d - 1
        doe == yoe * 365 + yoe \div 4 - yoe \div 100 + doy
    IN  era * 146097 + doe - 730425

\* The civil date of a count of days from 2000-01-01.
CivilFromDays(z) ==
    LET zz  == z + 730425
        era == zz \div 146097
        doe == zz - era * 146097
        yoe == (doe - doe \div 1460 + doe \div 36524 - doe \div 146096) \div 365
        doy == doe - (365 * yoe + yoe \div 4 - yoe \div 100)
        mp  == (5 * doy + 2) \div 153
        d   == doy - (153 * mp + 2) \div 5 + 1
        m   == IF mp < 10 THEN mp + 3 ELSE mp - 9
        y   == yoe + era * 400 + (IF m <= 2 THEN 1 ELSE 0)
    IN  [year |-> y, month |-> m, day |-> d]

SecondsPerDay == 86400

\* datetime(y, m, d, H, M, S) as an instant.
Instant(y, m, d, H, M, S) ==
    DaysFromCivil(y, m, d) * SecondsPerDay + H * 3600 + M * 60 + S

\* The fields of an instant.
Fields(t) ==
    LET r == t % SecondsPerDay
    IN  CHOOSE out \in
            {[year |-> c.year, month |-> c.month, day |-> c.day,
              hour |-> r \div 3600, minute |-> (r % 3600) \div 60,
              second |-> r % 60] :
                 c \in {CivilFromDays(t \div SecondsPerDay)}} : TRUE

\* datetime(...) raises ValueError outside these ranges.
ValidFields(f) ==
    /\ f.year \in 1..9999
    /\ f.month \in 1..12
    /\ f.day \in 1..DaysInMonth(f.year, f.month)
    /\ f.hour \in 0..23
    /\ f.minute \in 0..59
    /\ f.second \in 0..59

\* The widths a strptime directive tries at pos, in the order of the
\* alternatives of its regular expression (time.strptime's table):
\*   Y \d\d\d\d            m 1[0-2]|0[1-9]|[1-9]    d 3[01]|[12]\d|0[1-9]|[1-9]
\*   H 2[0-3]|[0-1]\d|\d   M [0-5]\d|\d             S 6[0-1]|[0-5]\d|\d
DirectiveMatches(dir, text, pos, width) ==
    /\ pos + width - 1 <= Len(text)
    /\ \A i \in pos..(pos + width - 1) : IsDigit(text[i])
    /\ LET v  == ToInt(text, pos, pos + width - 1)
           c1 == DigitVal(text[pos])
       IN  CASE dir = "Y" -> width = 4
             [] dir = "m" -> IF width = 2 THEN v \in 1..12 ELSE width = 1 /\ v \in 1..9
             [] dir = "d" -> IF width = 2 THEN v \in 1..31 ELSE width = 1 /\ v \in 1..9
             [] dir = "H" -> IF width = 2 THEN v \in 0..23 ELSE width = 1
             [] dir = "M" -> IF width = 2 THEN c1 \in 0..5 ELSE width = 1
             [] dir = "S" -> IF width = 2 THEN v \in 0..61 ELSE width = 1

\* re.match of the format's expression: the first way, in the order the
\* alternatives are tried, of matching every directive; the match need not
\* reach the end of the text.
RECURSIVE FormatMatch(_, _, _, _, _)
FormatMatch(format, k, text, pos, acc) ==
    IF k > Len(format) THEN [ok |-> TRUE, end |-> pos, vals |-> acc]
    ELSE LET dir == format[k]
             try(width) ==
                 IF DirectiveMatches(dir, text, pos, width)
                 THEN FormatMatch(format, k + 1, text, pos + width,
                                  acc \o <<ToInt(text, pos, pos + width - 1)>>)
                 ELSE Invalid
         IN  IF dir = "Y" THEN try(4)
             ELSE CHOOSE out \in {IF two.ok THEN two ELSE try(1) :
                                     two \in {try(2)}} : TRUE

\* datetime.strptime(text, format): ValueError when the expression does not
\* match, when text remains after the match, or when the fields are no date.
strptime(text, format) ==
    LET val(found, i, default) ==
            IF i <= Len(format) THEN found.vals[i] ELSE default
        fields(found) ==
            [year |-> val(found, 1, 1900), month |-> val(found, 2, 1),
             day |-> val(found, 3, 1), hour |-> val(found, 4, 0),
             minute |-> val(found, 5, 0), second |-> val(found, 6, 0)]
        date(f) ==
            IF ValidFields(f)
            THEN Valid(Instant(f.year, f.month, f.day, f.hour, f.minute, f.second))
            ELSE Invalid
    IN  CHOOSE out \in
            {IF found.ok /\ found.end = Len(text) + 1
             THEN CHOOSE d \in {date(f) : f \in {fields(found)}} : TRUE
             ELSE Invalid :
                 found \in {FormatMatch(format, 1, text, 1, <<>>)}} : TRUE

\* parse_meteo_date's date_formats, directive by directive.
date_formats ==
    << <<"Y">>, <<"Y", "m">>, <<"Y", "m", "d">>, <<"Y", "m", "d", "H">>,
       <<"Y", "m", "d", "H", "M">>, <<"Y", "m", "d", "H", "M", "S">> >>

RECURSIVE MeteoFrom(_, _)
MeteoFrom(text, k) ==
    IF k > Len(date_formats) THEN Invalid
    ELSE CHOOSE out \in {IF date.ok THEN date ELSE MeteoFrom(text, k + 1) :
                            date \in {strptime(text, date_formats[k])}} : TRUE

parse_meteo_date(text) == MeteoFrom(text, 1)

\* datetime.replace(...) on an instant: the named fields set, the others kept.
Replace(t, y, m, d) ==
    Instant(y, m, d, 0, 0, 0) + (t % SecondsPerDay)

\* The keys of map_keywords_to_dates.
Kw_today == <<"t", "o", "d", "a", "y">>
Kw_tomorrow == <<"t", "o", "m", "o", "r", "r", "o", "w">>
Kw_yesterday == <<"y", "e", "s", "t", "e", "r", "d", "a", "y">>
Kw_now == <<"n", "o", "w">>
Kw_start_of_month == <<"s", "t", "a", "r", "t", "_", "o", "f", "_", "m", "o", "n", "t", "h">>
Kw_end_of_month == <<"e", "n", "d", "_", "o", "f", "_", "m", "o", "n", "t", "h">>
Kw_start_of_year == <<"s", "t", "a", "r", "t", "_", "o", "f", "_", "y", "e", "a", "r">>
Kw_end_of_year == <<"e", "n", "d", "_", "o", "f", "_", "y", "e", "a", "r">>
Kw_next_week == <<"n", "e", "x", "t", "_", "w", "e", "e", "k">>
Kw_last_week == <<"l", "a", "s", "t", "_", "w", "e", "e", "k">>
Kw_beginning_of_next_month == <<"b", "e", "g", "i", "n", "n", "i", "n", "g", "_", "o", "f", "_", "n", "e", "x", "t", "_", "m", "o", "n", "t", "h">>
Kw_end_of_next_month == <<"e", "n", "d", "_", "o", "f", "_", "n", "e", "x", "t", "_", "m", "o", "n", "t", "h">>

\* map_keywords_to_dates: the table computed from self.current_time.
map_keywords_to_dates(now) ==
    LET table(f, next) ==
        << [key |-> Kw_today,          date |-> now],
           [key |-> Kw_tomorrow,       date |-> now + SecondsPerDay],
           [key |-> Kw_yesterday,      date |-> now - SecondsPerDay],
           [key |-> Kw_now,            date |-> now],
           [key |-> Kw_start_of_month, date |-> Replace(now, f.year, f.month, 1)],
           [key |-> Kw_end_of_month,
            date |-> Replace(now, f.year, next, 1) - SecondsPerDay],
           [key |-> Kw_start_of_year,  date |-> Replace(now, f.year, 1, 1)],
           [key |-> Kw_end_of_year,    date |-> Replace(now, f.year, 12, 31)],
           [key |-> Kw_next_week,      date |-> now + 7 * SecondsPerDay],
           [key |-> Kw_last_week,      date |-> now - 7 * SecondsPerDay],
           [key |-> Kw_beginning_of_next_month,
            date |-> Replace(now, f.year, next, 1)],
           [key |-> Kw_end_of_next_month,
            date |-> Replace(now, f.year + f.month \div 12, next, 1)
                         - SecondsPerDay] >>
    IN  CHOOSE out \in {table(f, (f.month % 12) + 1) : f \in {Fields(now)}} : TRUE

\* keyword_equivalents[date_text]: KeyError (Invalid here) for any other text.
KeywordLookup(now, text) ==
    CHOOSE out \in
        {IF \E i \in DOMAIN table : table[i].key = text
         THEN Valid(table[CHOOSE i \in DOMAIN table : table[i].key = text].date)
         ELSE Invalid :
             table \in {map_keywords_to_dates(now)}} : TRUE

\* dateutil.parser.parse, the library behind parse_date's last resort, on the
\* texts this model gives it: a date written YYYY-MM-DD is that day at 00:00,
\* and a text that is no date (a word such as "invalid") is a ValueError.
dateutil_parse(text) ==
    IF /\ Len(text) = 10
       /\ text[5] = "-" /\ text[8] = "-"
       /\ \A i \in {1, 2, 3, 4, 6, 7, 9, 10} : text[i] \in DigitClass
       /\ ValidFields([year |-> ToInt(text, 1, 4), month |-> ToInt(text, 6, 7),
                       day |-> ToInt(text, 9, 10), hour |-> 0, minute |-> 0,
                       second |-> 0])
    THEN Valid(Instant(ToInt(text, 1, 4), ToInt(text, 6, 7), ToInt(text, 9, 10),
                       0, 0, 0))
    ELSE Invalid

\* parse_date: the keyword table, then parse_meteo_date, then dateutil.
parse_date(now, date_text) ==
    CHOOSE out \in
        {IF keyword.ok THEN keyword
         ELSE CHOOSE d \in {IF meteo.ok THEN meteo ELSE dateutil_parse(date_text) :
                               meteo \in {parse_meteo_date(date_text)}} : TRUE :
             keyword \in {KeywordLookup(now, date_text)}} : TRUE

\* TIME_UNITS_MAPPING with timedelta's seconds per unit.
UnitSeconds(unit) ==
    CASE unit = "d" -> SecondsPerDay
      [] unit = "h" -> 3600
      [] unit = "m" -> 60
      [] unit = "s" -> 1

calculate_time_increment(sign, value, unit) ==
    IF unit \in {"d", "h", "m", "s"}
    THEN Valid(IF sign = "+" THEN value * UnitSeconds(unit)
               ELSE 0 - value * UnitSeconds(unit))
    ELSE Invalid

\* An optional group (\d+<unit>)? of parse_expression's pattern at pos.
Segment(text, pos, unit) ==
    LET e == RunEnd(text, pos, DigitClass)
    IN  IF e >= pos /\ e + 1 <= Len(text) /\ text[e + 1] = unit
        THEN [value |-> ToInt(text, pos, e), next |-> e + 2]
        ELSE [value |-> 0, next |-> pos]

\* parse_expression: re.match of name, optional sign and the optional
\* groups for days, hours, minutes and seconds (the match is not anchored at
\* the end of the text); None when the text does not start with a name.
parse_expression(now, expression) ==
    LET nameEnd == RunEnd(expression, 1, NameClass)
        hasSign == nameEnd + 1 <= Len(expression)
                      /\ expression[nameEnd + 1] \in {"+", "-"}
        sign    == IF hasSign THEN expression[nameEnd + 1] ELSE "None"
        p0      == IF hasSign THEN nameEnd + 2 ELSE nameEnd + 1
        days    == Segment(expression, p0, "d")
        hours   == Segment(expression, days.next, "h")
        minutes == Segment(expression, hours.next, "m")
        seconds == Segment(expression, minutes.next, "s")
        total   == calculate_time_increment(sign, days.value, "d").value
                     + calculate_time_increment(sign, hours.value, "h").value
                     + calculate_time_increment(sign, minutes.value, "m").value
                     + calculate_time_increment(sign, seconds.value, "s").value
    IN  IF nameEnd < 1 THEN NoneValue
        ELSE CHOOSE out \in
                 {IF date.ok THEN Valid(date.value + total) ELSE Invalid :
                      date \in {parse_date(now, SubSeq(expression, 1, nameEnd))}} :
                 TRUE

\* parse_time_expression: re.match of [+-]? \d+ [dhms]?; the sign defaults
\* to + and the unit to seconds; ValueError without a digit.
parse_time_expression(expression) ==
    LET hasSign == Len(expression) >= 1 /\ expression[1] \in {"+", "-"}
        sign    == IF hasSign THEN expression[1] ELSE "+"
        p0      == IF hasSign THEN 2 ELSE 1
        e       == RunEnd(expression, p0, DigitClass)
        unit    == IF e + 1 <= Len(expression)
                      /\ expression[e + 1] \in {"d", "h", "m", "s"}
                   THEN expression[e + 1] ELSE "s"
    IN  IF e < p0 THEN Invalid
        ELSE calculate_time_increment(sign, ToInt(expression, p0, e), unit)

----------------------------------------------------------------------------
(* TaskScheduler: building tasks.                                          *)

Get(d, k, default) == IF k \in DOMAIN d THEN d[k] ELSE default

\* create_base_task raises KeyError unless both keys are there.
CanCreate(task_data) == "name" \in DOMAIN task_data /\ "block" \in DOMAIN task_data

create_base_task(task_data) ==
    [name         |-> task_data.name,
     time         |-> Get(task_data, "time", TimeNone),
     block        |-> task_data.block,
     depends_on   |-> Get(task_data, "depend_on", <<>>),
     max_attempts |-> Get(task_data, "max_attempts", DefaultMaxAttempts),
     subtasks     |-> <<>>]

CanAdd(task_data) ==
    /\ CanCreate(task_data)
    /\ \A i \in DOMAIN Get(task_data, "subtasks", <<>>) :
           CanCreate(task_data.subtasks[i])

\* add_task's result: the base task with its subtasks built.
BuildTask(task_data) ==
    [create_base_task(task_data) EXCEPT
        !.subtasks = [i \in DOMAIN Get(task_data, "subtasks", <<>>) |->
                         create_base_task(task_data.subtasks[i])]]

\* update_tasks: [item for item in yaml_data if 'task' in item]
RECURSIVE TaskItems(_)
TaskItems(doc) ==
    IF doc = <<>> THEN <<>>
    ELSE IF "task" \in DOMAIN Head(doc)
         THEN <<Head(doc).task>> \o TaskItems(Tail(doc))
         ELSE TaskItems(Tail(doc))

----------------------------------------------------------------------------
(* TaskScheduler: the ledger.                                              *)

is_task_completed(task_name) ==
    /\ task_name \in DOMAIN completed_tasks
    /\ completed_tasks[task_name].status = "success"

\* check_dependencies that answers True for any list.
check_dependencies_unchecked(task) == TRUE

\* check_dependencies answering True for an empty list alone.
check_dependencies_only_empty(task) == task.depends_on = <<>>

\* check_dependencies answering from the ledger as it was when the for-loop
\* began: a success written since does not count.
check_dependencies_at_tick_start(task) ==
    \A i \in DOMAIN task.depends_on :
        is_task_completed(task.depends_on[i]) /\ task.depends_on[i] \notin tick_done

check_dependencies(task) ==
    \A i \in DOMAIN task.depends_on : is_task_completed(task.depends_on[i])

\* check_max_attempts comparing with > for >=.
check_max_attempts_off_by_one(task) ==
    ~ /\ task.name \in DOMAIN completed_tasks
      /\ completed_tasks[task.name].status = "failed"
      /\ completed_tasks[task.name].max_attempts > task.max_attempts

check_max_attempts(task) ==
    ~ /\ task.name \in DOMAIN completed_tasks
      /\ completed_tasks[task.name].status = "failed"
      /\ completed_tasks[task.name].max_attempts >= task.max_attempts

\* The loop's test without the schedule.
TimeMatches_any_time(task, now) == TRUE

\* The loop's time test: task["time"] is None or current_time in task["time"].
TimeMatches(task, now) ==
    \/ task.time = TimeNone
    \/ \E i \in DOMAIN task.time : task.time[i] = now

\* The loop's test without is_task_not_completed.
Eligible_without_completed(task, now) ==
    /\ TimeMatches(task, now)
    /\ check_dependencies(task)
    /\ check_max_attempts(task)

\* The loop's test without the time test.
Eligible_without_schedule(task, now) ==
    /\ ~is_task_completed(task.name)
    /\ check_dependencies(task)
    /\ check_max_attempts(task)

Eligible(task, now) ==
    /\ TimeMatches(task, now)
    /\ ~is_task_completed(task.name)
    /\ check_dependencies(task)
    /\ check_max_attempts(task)

Put(d, k, v) == [m \in DOMAIN d \cup {k} |-> IF m = k THEN v ELSE d[m]]

\* handle_failure writing the count 1 whether or not the name has an entry.
FailureEntry_without_increment(task_name) ==
    [status |-> "failed", max_attempts |-> 1]

\* handle_failure's write to the ledger.
FailureEntry(task_name) ==
    IF task_name \in DOMAIN completed_tasks
    THEN [status |-> "failed",
          max_attempts |-> completed_tasks[task_name].max_attempts + 1]
    ELSE [status |-> "failed", max_attempts |-> 1]

\* The attempt count the ledger holds for a name (none: 0).
Attempts(ledger, n) ==
    IF n \in DOMAIN ledger /\ "max_attempts" \in DOMAIN ledger[n]
    THEN ledger[n].max_attempts ELSE 0

----------------------------------------------------------------------------
(* The scheduler loop.                                                     *)

\* The list object the running for-loop iterates.
IterList == IF iter_live THEN tasks ELSE iter_old

CurTask == IterList[idx]

InLoop == s_pc \in {"iter", "exec_block", "exec_sub", "notify", "sleep_failure"}

\* No execute_task call to tell of.
NoRun == [name |-> "", block |-> "none", subs |-> <<>>]

InitScheduler ==
    /\ tasks = <<>>
    /\ completed_tasks = <<>>
    /\ s_pc = "start"
    /\ current_time = "06:00"
    /\ iter_live = FALSE
    /\ iter_old = <<>>
    /\ idx = 0
    /\ block_ok = FALSE
    /\ sub_idx = 0
    /\ r_pc = "unstarted"
    /\ yaml_data = <<>>
    /\ r_idx = 0
    /\ executions = [n \in Names |-> 0]
    /\ tick_seen = <<>>
    /\ last_complete = <<>>
    /\ tick_ok = {}
    /\ success_writes = [n \in Names |-> 0]
    /\ notifications = [n \in Names |-> 0]
    /\ last_run = NoRun
    /\ gave_up = {}
    /\ unsent = {}
    /\ tick_done = {}

\* Before any block is run: the executor and its parser have been built.
InitExecutorIdle ==
    /\ parser_now = Instant(2024, 1, 3, 10, 30, 0)
    /\ script = <<>>
    /\ stack = <<>>
    /\ x_result = "idle"
    /\ failed_scripts = <<>>
    /\ run_log = <<>>
    /\ iter_log = <<>>

\* No TimeParser method has been called on its own.
NotCalled == [ok |-> FALSE, called |-> FALSE]

InitParserIdle ==
    /\ p_text = <<>>
    /\ p_call = "none"
    /\ p_out = NotCalled

Init == InitScheduler /\ InitExecutorIdle /\ InitParserIdle

\* start_scheduler: update_thread.start()
StartScheduler ==
    /\ s_pc = "start"
    /\ s_pc' = "tick"
    /\ r_pc' = "load"
    /\ UNCHANGED <<tasks, completed_tasks, current_time, iter_live, iter_old,
                   idx, block_ok, sub_idx, yaml_data, r_idx, executions,
                   tick_seen, last_complete, tick_ok, success_writes,
                   notifications, last_run, gave_up, unsent, tick_done,
                   execVars, parseVars>>

\* The top of `while True`: the time is sampled and the for-loop takes an
\* iterator of the list self.tasks names at this moment.
TickStart(now) ==
    /\ s_pc = "tick"
    /\ s_pc' = "iter"
    /\ current_time' = now
    /\ iter_live' = TRUE
    /\ iter_old' = <<>>
    /\ idx' = 0
    /\ tick_seen' = <<>>
    /\ tick_ok' = {last_complete}
    /\ UNCHANGED <<tasks, completed_tasks, block_ok, sub_idx, r_pc, yaml_data,
                   r_idx, executions, last_complete, success_writes,
                   notifications, last_run, gave_up, unsent, tick_done,
                   execVars, parseVars>>

\* The for-loop taking a task while execute_task is still running.
AtLoopHead_overlapping == s_pc \in {"iter", "exec_block", "exec_sub"}

\* The for-loop is between two tasks: execute_task, send_notification and
\* handle_failure are calls of the loop's own thread and have returned.
AtLoopHead == s_pc = "iter"

\* One step of the for-loop: the next task is taken and tested; the
\* loop ends when the iterator's index has reached the list's length.
NextTask ==
    /\ AtLoopHead
    /\ IF idx >= Len(IterList)
       THEN /\ s_pc' = "sleep"
            /\ tick_seen' = IterList
            /\ iter_live' = FALSE
            /\ iter_old' = <<>>
            /\ idx' = 0
            /\ last_run' = NoRun
            /\ tick_done' = {}
            /\ UNCHANGED executions
       ELSE /\ idx' = idx + 1
            /\ UNCHANGED <<tick_seen, iter_live, iter_old, tick_done>>
            /\ IF Eligible(IterList[idx + 1], current_time)
               THEN /\ s_pc' = "exec_block"
                    /\ executions' =
                         [executions EXCEPT ![IterList[idx + 1].name] = @ + 1]
                    /\ last_run' = [NoRun EXCEPT !.name = IterList[idx + 1].name]
               ELSE /\ s_pc' = "iter"
                    /\ last_run' = NoRun
                    /\ UNCHANGED executions
    /\ UNCHANGED <<tasks, completed_tasks, current_time, block_ok, sub_idx,
                   r_pc, yaml_data, r_idx, last_complete, tick_ok, success_writes,
                   notifications, gave_up, unsent, execVars, parseVars>>

\* execute_task returning subtasks_success alone.
TaskResult_subtasks_only(success, subtasks_success) == subtasks_success

\* execute_task: return success and subtasks_success
TaskResult(success, subtasks_success) == success /\ subtasks_success

\* The loop's branch on success that leaves send_notification out.
Finish_without_notification(task, success) ==
    IF success
    THEN /\ completed_tasks' = Put(completed_tasks, task.name, [status |-> "success"])
         /\ success_writes' = [success_writes EXCEPT ![task.name] = @ + 1]
         /\ s_pc' = "iter"
         /\ tick_done' = tick_done \cup {task.name}
         /\ UNCHANGED gave_up
    ELSE /\ completed_tasks' = Put(completed_tasks, task.name, FailureEntry(task.name))
         /\ UNCHANGED <<success_writes, tick_done>>
         /\ IF task.max_attempts - FailureEntry(task.name).max_attempts > 0
            THEN s_pc' = "sleep_failure" /\ UNCHANGED gave_up
            ELSE s_pc' = "iter" /\ gave_up' = gave_up \cup {task.name}

\* What the loop does with execute_task's result: the ledger is written and
\* the loop goes to the notification, to handle_failure's sleep or on.
Finish(task, success) ==
    IF success
    THEN /\ completed_tasks' = Put(completed_tasks, task.name, [status |-> "success"])
         /\ success_writes' = [success_writes EXCEPT ![task.name] = @ + 1]
         /\ s_pc' = "notify"
         /\ tick_done' = tick_done \cup {task.name}
         /\ UNCHANGED gave_up
    ELSE /\ completed_tasks' = Put(completed_tasks, task.name, FailureEntry(task.name))
         /\ UNCHANGED <<success_writes, tick_done>>
         /\ IF task.max_attempts - FailureEntry(task.name).max_attempts > 0
            THEN s_pc' = "sleep_failure" /\ UNCHANGED gave_up
            ELSE s_pc' = "iter" /\ gave_up' = gave_up \cup {task.name}

\* execute_task without its try/except: an exception of the block leaves
\* start_scheduler.
ExecBlock_uncaught(r) ==
    /\ s_pc = "exec_block"
    /\ IF r = "raise"
       THEN /\ s_pc' = "crashed"
            /\ UNCHANGED <<completed_tasks, success_writes, gave_up, tick_done, block_ok,
                           sub_idx>>
       ELSE IF CurTask.subtasks = <<>>
            THEN Finish(CurTask, TaskResult(r = "ok", TRUE))
                 /\ UNCHANGED <<block_ok, sub_idx>>
            ELSE /\ s_pc' = "exec_sub"
                 /\ block_ok' = (r = "ok")
                 /\ sub_idx' = 1
                 /\ UNCHANGED <<completed_tasks, success_writes, gave_up, tick_done>>
    /\ last_run' = [last_run EXCEPT !.block = r]
    /\ UNCHANGED <<tasks, current_time, iter_live, iter_old, idx, r_pc,
                   yaml_data, r_idx, executions, tick_seen, last_complete,
                   tick_ok, notifications, unsent, execVars, parseVars>>

\* execute_task: the block is run; an exception ends execute_task with False
\* before any subtask is run.
ExecBlock(r) ==
    /\ s_pc = "exec_block"
    /\ IF r = "raise"
       THEN Finish(CurTask, FALSE) /\ UNCHANGED <<block_ok, sub_idx>>
       ELSE IF CurTask.subtasks = <<>>
            THEN Finish(CurTask, TaskResult(r = "ok", TRUE))
                 /\ UNCHANGED <<block_ok, sub_idx>>
            ELSE /\ s_pc' = "exec_sub"
                 /\ block_ok' = (r = "ok")
                 /\ sub_idx' = 1
                 /\ UNCHANGED <<completed_tasks, success_writes, gave_up, tick_done>>
    /\ last_run' = [last_run EXCEPT !.block = r]
    /\ UNCHANGED <<tasks, current_time, iter_live, iter_old, idx, r_pc,
                   yaml_data, r_idx, executions, tick_seen, last_complete,
                   tick_ok, notifications, unsent, execVars, parseVars>>

\* execute_subtask under all(...): the generator stops at the first subtask
\* that returns False (an exception inside it is caught and gives False).
ExecSubtask(r) ==
    /\ s_pc = "exec_sub"
    /\ IF r # "ok"
       THEN Finish(CurTask, TaskResult(block_ok, FALSE))
            /\ sub_idx' = 0 /\ block_ok' = FALSE
       ELSE IF sub_idx = Len(CurTask.subtasks)
            THEN Finish(CurTask, TaskResult(block_ok, TRUE))
                 /\ sub_idx' = 0 /\ block_ok' = FALSE
            ELSE /\ sub_idx' = sub_idx + 1
                 /\ UNCHANGED <<s_pc, block_ok, completed_tasks, success_writes,
                                gave_up, tick_done>>
    /\ last_run' = [last_run EXCEPT !.subs = Append(@, r)]
    /\ UNCHANGED <<tasks, current_time, iter_live, iter_old, idx, r_pc,
                   yaml_data, r_idx, executions, tick_seen, last_complete,
                   tick_ok, notifications, unsent, execVars, parseVars>>

\* send_notification letting a failure to send count as a failure of the
\* task.
SendNotification_escalating(sent) ==
    /\ s_pc = "notify"
    /\ s_pc' = "iter"
    /\ notifications' = [notifications EXCEPT ![CurTask.name] = @ + 1]
    /\ unsent' = IF sent THEN unsent ELSE unsent \cup {CurTask.name}
    /\ completed_tasks' =
         IF sent THEN completed_tasks
         ELSE Put(completed_tasks, CurTask.name,
                  [status |-> "failed", max_attempts |-> 1])
    /\ UNCHANGED <<tasks, current_time, iter_live, iter_old,
                   idx, block_ok, sub_idx, r_pc, yaml_data, r_idx, executions,
                   tick_seen, last_complete, tick_ok, success_writes, last_run,
                   gave_up, tick_done, execVars, parseVars>>

\* send_notification: the message is built and sent inside try/except
\* Exception, so whether the mail goes out or not, nothing is raised and the
\* loop goes on.
SendNotification(sent) ==
    /\ s_pc = "notify"
    /\ s_pc' = "iter"
    /\ notifications' = [notifications EXCEPT ![CurTask.name] = @ + 1]
    /\ unsent' = IF sent THEN unsent ELSE unsent \cup {CurTask.name}
    /\ UNCHANGED <<tasks, completed_tasks, current_time, iter_live, iter_old,
                   idx, block_ok, sub_idx, r_pc, yaml_data, r_idx, executions,
                   tick_seen, last_complete, tick_ok, success_writes, last_run,
                   gave_up, tick_done, execVars, parseVars>>

\* handle_failure: time.sleep(self.sleep_failure)
SleepFailure ==
    /\ s_pc = "sleep_failure"
    /\ s_pc' = "iter"
    /\ UNCHANGED <<tasks, completed_tasks, current_time, iter_live, iter_old,
                   idx, block_ok, sub_idx, r_pc, yaml_data, r_idx, executions,
                   tick_seen, last_complete, tick_ok, success_writes,
                   notifications, last_run, gave_up, unsent, tick_done,
                   execVars, parseVars>>

\* time.sleep(self.sleep_between_tasks)
SleepBetweenTasks ==
    /\ s_pc = "sleep"
    /\ s_pc' = "tick"
    /\ UNCHANGED <<tasks, completed_tasks, current_time, iter_live, iter_old,
                   idx, block_ok, sub_idx, r_pc, yaml_data, r_idx, executions,
                   tick_seen, last_complete, tick_ok, success_writes,
                   notifications, last_run, gave_up, unsent, tick_done,
                   execVars, parseVars>>

----------------------------------------------------------------------------
(* The reloader thread: update_tasks.                                      *)

\* update_tasks clearing the ledger together with the list.
LoadYaml_clearing_ledger(d) ==
    /\ r_pc = "load"
    /\ yaml_data' = TaskItems(Sources[d])
    /\ tasks' = <<>>
    /\ completed_tasks' = <<>>
    /\ r_pc' = "add"
    /\ r_idx' = 1
    /\ IF InLoop /\ iter_live
       THEN iter_live' = FALSE /\ iter_old' = tasks
       ELSE UNCHANGED <<iter_live, iter_old>>
    /\ UNCHANGED <<s_pc, current_time, idx, block_ok, sub_idx,
                   executions, tick_seen, last_complete, tick_ok, success_writes,
                   notifications, last_run, gave_up, unsent, tick_done,
                   execVars, parseVars>>

\* load_yaml_file returns the document and `self.tasks = []` rebinds the
\* attribute to a new list; a running for-loop keeps the list it started on.
LoadYaml(d) ==
    /\ r_pc = "load"
    /\ yaml_data' = TaskItems(Sources[d])
    /\ tasks' = <<>>
    /\ r_pc' = "add"
    /\ r_idx' = 1
    /\ IF InLoop /\ iter_live
       THEN iter_live' = FALSE /\ iter_old' = tasks
       ELSE UNCHANGED <<iter_live, iter_old>>
    /\ UNCHANGED <<completed_tasks, s_pc, current_time, idx, block_ok, sub_idx,
                   executions, tick_seen, last_complete, tick_ok, success_writes,
                   notifications, last_run, gave_up, unsent, tick_done,
                   execVars, parseVars>>

\* load_yaml_file raises (no file, no YAML): the thread ends before it has
\* touched self.tasks.
LoadYamlError ==
    /\ r_pc = "load"
    /\ r_pc' = "dead"
    /\ UNCHANGED <<tasks, completed_tasks, s_pc, current_time, iter_live,
                   iter_old, idx, block_ok, sub_idx, yaml_data, r_idx,
                   executions, tick_seen, last_complete, tick_ok, success_writes,
                   notifications, last_run, gave_up, unsent, tick_done,
                   execVars, parseVars>>

\* One round of `for task_data in tasks: self.add_task(task_data['task'])`;
\* a KeyError of create_base_task ends the thread where it is. After the
\* last entry the thread sleeps.
AddTask ==
    /\ r_pc = "add"
    /\ IF r_idx > Len(yaml_data)
       THEN /\ r_pc' = "sleep"
            /\ last_complete' = tasks
            /\ tick_ok' = IF InLoop THEN tick_ok \cup {tasks} ELSE tick_ok
            /\ yaml_data' = <<>>
            /\ r_idx' = 0
            /\ UNCHANGED tasks
       ELSE IF CanAdd(yaml_data[r_idx])
            THEN /\ tasks' = Append(tasks, BuildTask(yaml_data[r_idx]))
                 /\ r_idx' = r_idx + 1
                 /\ UNCHANGED <<r_pc, yaml_data, last_complete, tick_ok>>
            ELSE /\ r_pc' = "dead"
                 /\ yaml_data' = <<>>
                 /\ r_idx' = 0
                 /\ UNCHANGED <<tasks, last_complete, tick_ok>>
    /\ UNCHANGED <<completed_tasks, s_pc, current_time, iter_live, iter_old,
                   idx, block_ok, sub_idx, executions, tick_seen, success_writes,
                   notifications, last_run, gave_up, unsent, tick_done,
                   execVars, parseVars>>

\* time.sleep(self.update_interval)
UpdateSleep ==
    /\ r_pc = "sleep"
    /\ r_pc' = "load"
    /\ UNCHANGED <<tasks, completed_tasks, s_pc, current_time, iter_live,
                   iter_old, idx, block_ok, sub_idx, yaml_data, r_idx,
                   executions, tick_seen, last_complete, tick_ok, success_writes,
                   notifications, last_run, gave_up, unsent, tick_done,
                   execVars, parseVars>>

----------------------------------------------------------------------------

SchedulerStep ==
    \/ StartScheduler
    \/ \E now \in Times : TickStart(now)
    \/ NextTask
    \/ \E r \in Results : ExecBlock(r)
    \/ \E r \in Results : ExecSubtask(r)
    \/ \E sent \in BOOLEAN : SendNotification(sent)
    \/ SleepFailure
    \/ SleepBetweenTasks

ReloaderStep ==
    \/ \E d \in DOMAIN Sources : LoadYaml(d)
    \/ LoadYamlError
    \/ AddTask
    \/ UpdateSleep

Next == SchedulerStep \/ ReloaderStep

Spec == Init /\ [][Next]_vars

----------------------------------------------------------------------------
(* ScriptExecutor: execute_scripts and run_while_block, one frame of the   *)
(* stack per call. A frame: the list of commands it walks, the position in *)
(* it and, for a loop, current_date, to_date and increment.                *)

\* The texts the blocks below are written with.
T_20240101 == <<"2", "0", "2", "4", "0", "1", "0", "1">>
T_2024010112 == <<"2", "0", "2", "4", "0", "1", "0", "1", "1", "2">>
T_2024_01_01 == <<"2", "0", "2", "4", "-", "0", "1", "-", "0", "1">>
T_today == <<"t", "o", "d", "a", "y">>
T_invalid == <<"i", "n", "v", "a", "l", "i", "d">>
T_minus_1d == <<"-", "1", "d">>
T_20240103 == <<"2", "0", "2", "4", "0", "1", "0", "3">>
T_20240104 == <<"2", "0", "2", "4", "0", "1", "0", "4">>
T_2024_01_04 == <<"2", "0", "2", "4", "-", "0", "1", "-", "0", "4">>
T_2024010212 == <<"2", "0", "2", "4", "0", "1", "0", "2", "1", "2">>
T_today_plus_1d == <<"t", "o", "d", "a", "y", "+", "1", "d">>
T_1d == <<"1", "d">>
T_12h == <<"1", "2", "h">>
T_36h == <<"3", "6", "h">>
T_0d == <<"0", "d">>
T_d == <<"d">>
T_6h == <<"6", "h">>

FromTexts == {T_20240101, T_2024010112, T_2024_01_01, T_today, T_invalid, T_minus_1d}

ToTexts == {T_20240101, T_20240104, T_2024_01_04, T_2024010212, T_today_plus_1d}

IncrementTexts == {T_1d, T_12h, T_36h, T_0d, T_minus_1d, T_d}

RefTimes == {Instant(2024, 1, 3, 10, 30, 0), Instant(2023, 12, 31, 23, 0, 0)}

WhileStep(from, to, increment, do) ==
    [while |-> [condition |-> [from |-> from, to |-> to, increment |-> increment],
                do |-> do]]

\* A block of one loop around one command.
SingleWhile(from, to, increment) ==
    << WhileStep(from, to, increment, << [run |-> "proc %Y%m%d%H"] >>) >>

\* A block with plain commands, an item that is neither, and a loop holding a
\* command and a loop.
NestedBlock ==
    << [run |-> "pre"],
       [note |-> "no command"],
       WhileStep(T_20240101, T_20240103, T_1d,
                 << [run |-> "outer %Y%m%d"],
                    WhileStep(T_20240101, T_2024010112, T_6h,
                              << [run |-> "inner %H"] >>) >>),
       [run |-> "post"] >>

\* A block of a loop holding a loop and then a command, and a plain command.
NestedBlockThree ==
    << WhileStep(T_20240101, T_20240104, T_1d,
                 << WhileStep(T_20240101, T_2024010112, T_12h,
                              << [run |-> "inner %H"] >>),
                    [run |-> "outer %Y%m%d"] >>),
       [run |-> "post"] >>

NestedBlocks == {NestedBlock, NestedBlockThree}

Blocks ==
    {SingleWhile(f, t, i) : f \in FromTexts, t \in ToTexts, i \in IncrementTexts}
        \cup NestedBlocks

\* The most loop iterations followed in one run.
MaxIterations == 8

Frame(kind, cmds, cur, to, inc) ==
    [kind |-> kind, cmds |-> cmds, pos |-> 1, cur |-> cur, to |-> to, inc |-> inc]

Top == stack[Len(stack)]

TopCmd == Top.cmds[Top.pos]

AtCommand == stack # <<>> /\ Top.pos <= Len(Top.cmds)

\* The stack with the top frame's position moved past its command.
Advanced(st) == [st EXCEPT ![Len(st)].pos = @ + 1]

\* run_while_block's loop test with <= for <.
LoopContinues_inclusive(current_date, to_date) == current_date <= to_date

\* run_while_block: while current_date < to_date
LoopContinues(current_date, to_date) == current_date < to_date

\* The call of execute_scripts on a block: failed_scripts is reset.
InitExecutor ==
    /\ parser_now \in RefTimes
    /\ script \in Blocks
    /\ stack = <<Frame("scripts", script, 0, 0, 0)>>
    /\ x_result = "running"
    /\ failed_scripts = <<>>
    /\ run_log = <<>>
    /\ iter_log = <<>>

InitWhile == InitScheduler /\ InitExecutor /\ InitParserIdle

\* A failed command after which the list is walked on.
AfterFailure_walk_on(st) == Advanced(st)

\* A failed command that ends only the loop it is in.
AfterFailure_innermost_only(st) ==
    IF Len(st) > 1 THEN Advanced(SubSeq(st, 1, Len(st) - 1)) ELSE <<>>

\* The frames left when a command has failed: `return False` in
\* run_while_block and in every caller up to execute_scripts.
AfterFailure(st) == <<>>

\* A loop's command formatted with the instant of the outermost loop.
FormatInstant_outermost(st) == st[2].cur

\* current_date.strftime(cmd['run']): the instant is the current_date of the
\* run_while_block call the command is in.
FormatInstant(st) == st[Len(st)].cur

\* run_script on a 'run' item: in execute_scripts the command as written, in
\* a loop the command formatted (strftime) with current_date. A command that
\* fails ends every enclosing loop and execute_scripts with False.
RunCommand(ok) ==
    /\ AtCommand
    /\ "run" \in DOMAIN TopCmd
    /\ run_log' = Append(run_log,
                         IF Top.kind = "while"
                         THEN [run |-> TopCmd.run, ok |-> ok, at |-> FormatInstant(stack)]
                         ELSE [run |-> TopCmd.run, ok |-> ok])
    /\ IF ok
       THEN /\ stack' = Advanced(stack)
            /\ UNCHANGED <<x_result, failed_scripts>>
       ELSE /\ stack' = AfterFailure(stack)
            /\ x_result' = "false"
            /\ failed_scripts' =
                 Append(failed_scripts,
                        IF Len(stack) = 1
                        THEN [command |-> TopCmd.run, error |-> "Failed to execute"]
                        ELSE [while_block |-> stack[1].cmds[stack[1].pos].while,
                              error |-> "Failed to execute while block"])
    /\ UNCHANGED <<parser_now, script, iter_log, schedVars,
                   parseVars>>

\* run_while_block is entered for a 'while' item: the bounds and the
\* increment are parsed (an error, or the comparison of a None bound, raises
\* out of execute_scripts), and the loop test is made for the first time.
EnterWhile ==
    /\ AtCommand
    /\ "run" \notin DOMAIN TopCmd
    /\ "while" \in DOMAIN TopCmd
    /\ LET c         == TopCmd.while.condition
           from_date == parse_expression(parser_now, c.from)
           to_date   == parse_expression(parser_now, c.to)
           increment == parse_time_expression(c.increment)
       IN  IF ~from_date.ok \/ ~to_date.ok \/ ~increment.ok
           THEN /\ stack' = <<>>
                /\ x_result' = "raised"
                /\ UNCHANGED iter_log
           ELSE IF LoopContinues(from_date.value, to_date.value)
                THEN /\ Len(iter_log) < MaxIterations
                     /\ stack' = Append(stack,
                                        Frame("while", TopCmd.while.do,
                                              from_date.value, to_date.value,
                                              increment.value))
                     /\ iter_log' = Append(iter_log, [depth |-> Len(stack),
                                                      at |-> from_date.value])
                     /\ UNCHANGED x_result
                ELSE /\ stack' = Advanced(stack)
                     /\ UNCHANGED <<x_result, iter_log>>
    /\ UNCHANGED <<parser_now, script, failed_scripts, run_log, schedVars,
                   parseVars>>

\* The end of a loop body: current_date += increment and the loop test; the
\* loop returns True when the test fails.
NextIteration ==
    /\ stack # <<>>
    /\ Top.kind = "while"
    /\ Top.pos > Len(Top.cmds)
    /\ IF LoopContinues(Top.cur + Top.inc, Top.to)
       THEN /\ Len(iter_log) < MaxIterations
            /\ stack' = [stack EXCEPT ![Len(stack)].cur = @ + Top.inc,
                                      ![Len(stack)].pos = 1]
            /\ iter_log' = Append(iter_log, [depth |-> Len(stack) - 1,
                                             at |-> Top.cur + Top.inc])
       ELSE /\ stack' = Advanced(SubSeq(stack, 1, Len(stack) - 1))
            /\ UNCHANGED iter_log
    /\ UNCHANGED <<parser_now, script, x_result, failed_scripts, run_log,
                   schedVars,
                   parseVars>>

\* An item with neither 'run' nor 'while' is passed over.
SkipItem ==
    /\ AtCommand
    /\ "run" \notin DOMAIN TopCmd
    /\ "while" \notin DOMAIN TopCmd
    /\ stack' = Advanced(stack)
    /\ UNCHANGED <<parser_now, script, x_result, failed_scripts, run_log,
                   iter_log, schedVars,
                   parseVars>>

\* execute_scripts has walked its list: return True.
ReturnTrue ==
    /\ stack # <<>>
    /\ Top.kind = "scripts"
    /\ Top.pos > Len(Top.cmds)
    /\ stack' = <<>>
    /\ x_result' = "true"
    /\ UNCHANGED <<parser_now, script, failed_scripts, run_log, iter_log,
                   schedVars,
                   parseVars>>

NextWhile ==
    \/ \E ok \in BOOLEAN : RunCommand(ok)
    \/ EnterWhile
    \/ NextIteration
    \/ SkipItem
    \/ ReturnTrue

SpecWhile == InitWhile /\ [][NextWhile]_vars

----------------------------------------------------------------------------

\* The same run with the file holding DocAB at every reload and with every
\* command failing; the scheduler loop is a thread that is always scheduled
\* again.
SchedulerStepAB ==
    \/ StartScheduler
    \/ \E now \in Times : TickStart(now)
    \/ NextTask
    \/ ExecBlock("fail")
    \/ SleepBetweenTasks

ReloaderStepAB ==
    \/ LoadYaml(1)
    \/ AddTask
    \/ UpdateSleep

NextAB == SchedulerStepAB \/ ReloaderStepAB

SpecAB == Init /\ [][NextAB]_vars /\ WF_vars(SchedulerStepAB) /\ WF_vars(ReloaderStepAB)

----------------------------------------------------------------------------
(* TimeParser's methods called on their own, each on a text.               *)

\* Texts of digits only, of every length from 4 to 14.
DigitTexts ==
    {<<"2", "0", "2", "4">>,
     <<"2", "0", "2", "4", "1">>,
     <<"2", "0", "2", "4", "0", "1">>,
     <<"2", "0", "2", "4", "0", "1", "8">>,
     <<"2", "0", "2", "4", "0", "1", "0", "8">>,
     <<"2", "0", "2", "4", "0", "1", "0", "8", "1">>,
     <<"2", "0", "2", "4", "0", "1", "0", "8", "1", "2">>,
     <<"2", "0", "2", "4", "0", "1", "0", "8", "1", "2", "3">>,
     <<"2", "0", "2", "4", "0", "1", "0", "8", "1", "2", "3", "0">>,
     <<"2", "0", "2", "4", "0", "1", "0", "8", "1", "2", "3", "0", "4">>,
     <<"2", "0", "2", "4", "0", "1", "0", "8", "1", "2", "3", "0", "4", "5">>}

\* The texts parse_expression is called on: the texts of digits, a keyword,
\* a word, and
\*   "-1d"  "today+1d"  "today+2d3h"  "today+2x"  "today-1d2h3m4s"
\*   "today+3h2d"  ""  "+1d"  "20240108+1d"  "2024-01-01"
ExpressionTexts ==
    DigitTexts \cup
    {T_today, T_invalid, T_minus_1d, T_today_plus_1d,
     <<"t", "o", "d", "a", "y", "+", "2", "d", "3", "h">>,
     <<"t", "o", "d", "a", "y", "+", "2", "x">>,
     <<"t", "o", "d", "a", "y", "-", "1", "d", "2", "h", "3", "m", "4", "s">>,
     <<"t", "o", "d", "a", "y", "+", "3", "h", "2", "d">>,
     <<>>,
     <<"+", "1", "d">>,
     <<"2", "0", "2", "4", "0", "1", "0", "8", "+", "1", "d">>,
     T_2024_01_01}

\* The texts parse_date is called on.
DateTexts ==
    DigitTexts \cup {T_today, T_invalid, T_2024_01_01}
        \cup {Kw_start_of_month, Kw_end_of_month, Kw_beginning_of_next_month,
              Kw_end_of_next_month}

\* self.current_time in the middle of each month of a year.
MonthRefTimes == {Instant(2024, m, 15, 10, 30, 0) : m \in 1..12}

\* The texts parse_time_expression is called on, "+1d", "2x", "" and "2024"
\* among them.
TimeExpressionTexts ==
    {T_1d, T_12h, T_0d, T_d, T_minus_1d, T_today,
     <<"+", "1", "d">>, <<"2", "x">>, <<>>, <<"2", "0", "2", "4">>}

InitParser ==
    /\ parser_now \in RefTimes \cup MonthRefTimes
    /\ script = <<>>
    /\ stack = <<>>
    /\ x_result = "idle"
    /\ failed_scripts = <<>>
    /\ run_log = <<>>
    /\ iter_log = <<>>
    /\ p_text \in ExpressionTexts \cup DateTexts \cup TimeExpressionTexts
    /\ p_call = "none"
    /\ p_out = NotCalled

InitParse == InitScheduler /\ InitParser

ParseExpression ==
    /\ p_call = "none"
    /\ p_text \in ExpressionTexts
    /\ p_call' = "parse_expression"
    /\ p_out' = parse_expression(parser_now, p_text)
    /\ UNCHANGED <<p_text, schedVars, execVars>>

ParseDate ==
    /\ p_call = "none"
    /\ p_text \in DateTexts
    /\ p_call' = "parse_date"
    /\ p_out' = parse_date(parser_now, p_text)
    /\ UNCHANGED <<p_text, schedVars, execVars>>

ParseTimeExpression ==
    /\ p_call = "none"
    /\ p_text \in TimeExpressionTexts
    /\ p_call' = "parse_time_expression"
    /\ p_out' = parse_time_expression(p_text)
    /\ UNCHANGED <<p_text, schedVars, execVars>>

NextParse == ParseExpression \/ ParseDate \/ ParseTimeExpression

SpecParse == InitParse /\ [][NextParse]_vars

----------------------------------------------------------------------------
(* The scheduler loop on a list that is not reloaded: the reloader has     *)
(* built the list and sleeps through the run, no task has a schedule,      *)
(* every dependency is a task of the list, no task depends on itself       *)
(* through others, and every command succeeds.                             *)

FixedDocs ==
    { << [name |-> "A", block |-> "a"],
         [name |-> "B", depend_on |-> <<"A">>, block |-> "b"] >>,
      << [name |-> "B", depend_on |-> <<"A">>, block |-> "b"],
         [name |-> "A", block |-> "a"] >>,
      << [name |-> "S", depend_on |-> <<"B">>, block |-> "s"],
         [name |-> "B", depend_on |-> <<"A">>, block |-> "b"],
         [name |-> "A", block |-> "a"] >>,
      << [name |-> "A", block |-> "a",
          subtasks |-> <<[name |-> "T", block |-> "t"]>>],
         [name |-> "S", depend_on |-> <<"A", "B">>, max_attempts |-> 1,
          block |-> "s"],
         [name |-> "B", depend_on |-> <<"A">>, block |-> "b"] >>,
      << [name |-> "A", block |-> "a"],
         [name |-> "B", block |-> "b"],
         [name |-> "S", depend_on |-> <<"B", "A">>, block |-> "s"] >> }

\* The lists add_task builds from them.
FixedLists == {[i \in DOMAIN d |-> BuildTask(d[i])] : d \in FixedDocs}

InitFixed ==
    /\ tasks \in FixedLists
    /\ last_complete = tasks
    /\ completed_tasks = <<>>
    /\ s_pc = "tick"
    /\ current_time = "06:00"
    /\ iter_live = FALSE
    /\ iter_old = <<>>
    /\ idx = 0
    /\ block_ok = FALSE
    /\ sub_idx = 0
    /\ r_pc = "sleep"
    /\ yaml_data = <<>>
    /\ r_idx = 0
    /\ executions = [n \in Names |-> 0]
    /\ tick_seen = <<>>
    /\ tick_ok = {}
    /\ success_writes = [n \in Names |-> 0]
    /\ notifications = [n \in Names |-> 0]
    /\ last_run = NoRun
    /\ gave_up = {}
    /\ unsent = {}
    /\ tick_done = {}
    /\ InitExecutorIdle
    /\ InitParserIdle

\* The loop's steps when every block and subtask returns True.
NextFixed ==
    \/ \E now \in Times : TickStart(now)
    \/ NextTask
    \/ ExecBlock("ok")
    \/ ExecSubtask("ok")
    \/ \E sent \in BOOLEAN : SendNotification(sent)
    \/ SleepBetweenTasks

\* The loop's thread is always run again: a sleep ends, a command that
\* succeeds has ended.
SpecFixed == InitFixed /\ [][NextFixed]_vars /\ WF_vars(NextFixed)

----------------------------------------------------------------------------
(* Properties.                                                             *)

LedgerStatus(n) ==
    IF n \in DOMAIN completed_tasks THEN completed_tasks[n].status ELSE "none"

\* execute_task is running for a task of this name.
Executing(n) == s_pc \in {"exec_block", "exec_sub"} /\ CurTask.name = n

Range(f) == {f[i] : i \in DOMAIN f}

\* The max_attempts the documents give the top-level tasks of a name.
TopLevelMax(n) ==
    {Get(e, "max_attempts", DefaultMaxAttempts) :
        e \in {x \in UNION {Range(TaskItems(Sources[d])) : d \in DOMAIN Sources} :
                  "name" \in DOMAIN x /\ x.name = n}}

\* C1: whenever execute_task has been invoked for a task, every name of the
\* task's dependency list has a ledger entry with status success.
C1_DependenciesGateExecution ==
    s_pc \in {"exec_block", "exec_sub"} =>
        \A i \in DOMAIN CurTask.depends_on :
            LedgerStatus(CurTask.depends_on[i]) = "success"

\* A task that has a dependency is being executed.
C1_Witness == s_pc = "exec_block" /\ CurTask.depends_on # <<>>

\* C2: a name whose tasks all have max_attempts = N and whose executions
\* have all failed has been executed at most N times, each finished
\* execution is one counted attempt, and after the N-th the status is failed
\* (so the count of executions stays N for good).
C2_ExactlyNExecutions ==
    \A n \in Names :
        (Cardinality(TopLevelMax(n)) = 1 /\ LedgerStatus(n) # "success") =>
            LET N == CHOOSE m \in TopLevelMax(n) : TRUE
                running == IF Executing(n) THEN 1 ELSE 0
            IN  /\ executions[n] <= N
                /\ Attempts(completed_tasks, n) = executions[n] - running
                /\ (executions[n] = N /\ running = 0) => LedgerStatus(n) = "failed"

\* B (three attempts in every document) has failed three times and a later
\* tick has passed it over.
C2_Witness ==
    /\ executions["B"] = DefaultMaxAttempts
    /\ LedgerStatus("B") = "failed"
    /\ Attempts(completed_tasks, "B") = DefaultMaxAttempts
    /\ s_pc = "sleep"
    /\ \E i \in DOMAIN tick_seen : tick_seen[i].name = "B"

\* C3: the list a finished tick iterated over is one of the complete lists
\* that were live during the tick (no reload having failed).
C3_ReloadAtomicity ==
    (s_pc = "sleep" /\ r_pc # "dead") => tick_seen \in tick_ok

\* C4: after a reload that failed, the live list is the list that was live
\* before that reload started.
C4_LastKnownGood == r_pc = "dead" => tasks = last_complete

\* The block is one loop, and the bounds and the increment it was written
\* with resolve as follows.
IsSingleWhile == Len(script) = 1 /\ "while" \in DOMAIN script[1]

FromOf == parse_expression(parser_now, script[1].while.condition.from)

ToOf == parse_expression(parser_now, script[1].while.condition.to)

IncrementOf == parse_time_expression(script[1].while.condition.increment)

Resolved == IsSingleWhile /\ FromOf.ok /\ ToOf.ok /\ IncrementOf.ok

\* The instants of the iterations of the block's own (outermost) loops.
RECURSIVE OuterInstants(_)
OuterInstants(log) ==
    IF log = <<>> THEN <<>>
    ELSE IF Head(log).depth = 1 THEN <<Head(log).at>> \o OuterInstants(Tail(log))
         ELSE OuterInstants(Tail(log))

\* C5: a loop whose increment is zero or negative never begins an iteration
\* and its block does not return success.
C5_NonPositiveIncrementRejected ==
    (Resolved /\ IncrementOf.value <= 0) => (iter_log = <<>> /\ x_result # "true")

\* C6: when a loop with a positive increment has returned (every command
\* having succeeded), its body has run ceil((to - from) / increment) times,
\* at from, from + increment, ..., each before to; with from >= to it has
\* not run at all, whatever the increment.
C6_WhileIterationCount ==
    (Resolved /\ x_result = "true"
        /\ (IncrementOf.value > 0 \/ FromOf.value >= ToOf.value)) =>
        LET f   == FromOf.value
            t   == ToOf.value
            i   == IncrementOf.value
            n   == IF f < t THEN (t - f + i - 1) \div i ELSE 0
            its == OuterInstants(iter_log)
        IN  /\ Len(its) = n
            /\ Len(run_log) = n
            /\ \A k \in 1..n : its[k] = f + (k - 1) * i /\ its[k] < t
                                  /\ run_log[k].at = its[k]

\* A loop over a range its increment does not divide has returned after
\* three iterations.
C6_Witness ==
    /\ Resolved
    /\ x_result = "true"
    /\ IncrementOf.value > 0
    /\ FromOf.value < ToOf.value
    /\ (ToOf.value - FromOf.value) % IncrementOf.value # 0
    /\ Len(OuterInstants(iter_log)) = 3

\* C7: the loop from "2024-01-01" to "2024-01-04" by "1d" has, when it
\* returns, run its body for Jan 1, Jan 2 and Jan 3 2024 and no other day.
C7_EndToEndThreeDays ==
    (script = SingleWhile(T_2024_01_01, T_2024_01_04, T_1d) /\ x_result = "true") =>
        OuterInstants(iter_log) = << Instant(2024, 1, 1, 0, 0, 0),
                                     Instant(2024, 1, 2, 0, 0, 0),
                                     Instant(2024, 1, 3, 0, 0, 0) >>

\* C8: in the run of DocAB with failing commands, B is never executed and
\* start_scheduler returns, which is when run.py prints its summary.
C8_EndToEndSummary == [](executions["B"] = 0) /\ <>(s_pc = "returned")

\* C9: no step lowers the attempt count of a name, and the count of a name
\* never exceeds the max_attempts of a live task of that name.
C9_AttemptsMonotoneBounded ==
    /\ [][\A n \in Names :
            Attempts(completed_tasks', n) >= Attempts(completed_tasks, n)]_vars
    /\ [](\A i \in DOMAIN tasks :
            Attempts(completed_tasks, tasks[i].name) <= tasks[i].max_attempts)

\* C10: success is written at most once for a name, and once the entry of a
\* name has status success no step changes the entry or invokes execute_task
\* for a task of that name.
C10_SuccessImmutable ==
    /\ [][\A n \in Names :
            LedgerStatus(n) = "success" =>
                /\ n \in DOMAIN completed_tasks'
                /\ completed_tasks'[n] = completed_tasks[n]
                /\ executions'[n] = executions[n]]_vars
    /\ [](\A n \in Names : success_writes[n] <= 1)

\* A has succeeded after one execution and the tick has passed over the
\* second task named A (third in DocSched's list) without executing it.
C10_Witness ==
    /\ LedgerStatus("A") = "success"
    /\ executions["A"] = 1
    /\ current_time = "06:00"
    /\ s_pc = "iter"
    /\ idx = 3
    /\ CurTask.name = "A"

\* The execute_task call of this step has returned to the loop.
ExecutionEnds ==
    /\ s_pc \in {"exec_block", "exec_sub"}
    /\ s_pc' \notin {"exec_block", "exec_sub"}

\* The block returned True and every subtask of the task was run and
\* returned True.
RunSucceeded(run, task) ==
    /\ run.block = "ok"
    /\ Len(run.subs) = Len(task.subtasks)
    /\ \A i \in DOMAIN run.subs : run.subs[i] = "ok"

\* C11: when execute_task returns (its block not having raised), every
\* subtask of the task has been run, also after one of them failed, and a
\* failed subtask leaves the task recorded as failed.
C11_SubtasksBestEffort ==
    [][(ExecutionEnds /\ last_run'.block # "raise") =>
          /\ Len(last_run'.subs) = Len(CurTask.subtasks)
          /\ (\E i \in DOMAIN last_run'.subs : last_run'.subs[i] # "ok") =>
                 LedgerStatus(CurTask.name)' = "failed"]_vars

\* C12: the execution that has just ended is recorded as success exactly
\* when its block and all its subtasks succeeded, and as failed otherwise.
C12_SuccessIffBlockAndSubtasks ==
    [][ExecutionEnds =>
          /\ (LedgerStatus(CurTask.name)' = "success")
                 <=> RunSucceeded(last_run', CurTask)
          /\ (LedgerStatus(CurTask.name)' = "failed")
                 <=> ~RunSucceeded(last_run', CurTask)
          /\ (s_pc' = "notify") <=> RunSucceeded(last_run', CurTask)]_vars

\* A (block and two subtasks) has just been recorded as success.
C12_Witness ==
    /\ s_pc = "notify"
    /\ last_run = [name |-> "A", block |-> "ok", subs |-> <<"ok", "ok">>]
    /\ LedgerStatus("A") = "success"

\* C13: every success written to the ledger is followed by one
\* send_notification call for that name (the one still to come while the
\* loop is on its way to it), and a name that has been notified for has
\* status success.
C13_SuccessNotifiedOnce ==
    /\ s_pc = "notify" => LedgerStatus(CurTask.name) = "success"
    /\ \A n \in Names :
         /\ notifications[n] =
                success_writes[n] - (IF s_pc = "notify" /\ CurTask.name = n
                                     THEN 1 ELSE 0)
         /\ notifications[n] > 0 => LedgerStatus(n) = "success"

\* Both A and B have succeeded and each has been notified for once.
C13_Witness ==
    /\ notifications["A"] = 1
    /\ notifications["B"] = 1
    /\ s_pc = "iter"

\* C14: an execution that ends in failure leaves the name with status failed
\* and its count one higher; handle_failure sleeps exactly when the new
\* count is below the task's max_attempts, and no notification is sent.
C14_FailureCountsOnce ==
    [][(ExecutionEnds /\ s_pc' # "notify") =>
          /\ LedgerStatus(CurTask.name)' = "failed"
          /\ Attempts(completed_tasks', CurTask.name)
                 = Attempts(completed_tasks, CurTask.name) + 1
          /\ (s_pc' = "sleep_failure")
                 <=> Attempts(completed_tasks', CurTask.name) < CurTask.max_attempts
          /\ s_pc' \in {"sleep_failure", "iter"}
          /\ notifications' = notifications]_vars

\* B has just failed for the third time of three: no sleep.
C14_Witness ==
    /\ s_pc = "iter"
    /\ last_run.name = "B"
    /\ last_run.block = "fail"
    /\ Attempts(completed_tasks, "B") = DefaultMaxAttempts
    /\ notifications["B"] = 0

\* C15: the loop calls execute_task for the task it takes exactly when the
\* task has no schedule or the sampled time is in it, the name's status is
\* not success, every dependency has status success, and the name's count
\* is below the task's max_attempts.
C15_EligibilityExact ==
    [][(s_pc = "iter" /\ idx' = idx + 1) =>
          LET task == IterList[idx + 1]
          IN  (s_pc' = "exec_block"
                  /\ executions'[task.name] = executions[task.name] + 1)
              <=>
              /\ task.time = TimeNone \/ current_time \in Range(task.time)
              /\ LedgerStatus(task.name) # "success"
              /\ \A i \in DOMAIN task.depends_on :
                     LedgerStatus(task.depends_on[i]) = "success"
              /\ Attempts(completed_tasks, task.name) < task.max_attempts]_vars

\* The scheduled task is passed over at a time that is not in its schedule
\* although nothing else holds it back.
C15_Witness ==
    /\ s_pc = "iter"
    /\ idx = 1
    /\ CurTask.time # TimeNone
    /\ current_time \notin Range(CurTask.time)
    /\ CurTask.name \notin DOMAIN completed_tasks
    /\ last_run = NoRun

\* The run_script calls execute_scripts made itself (not from a loop).
IsTopLevel(entry) == "at" \notin DOMAIN entry

IsRun(cmd) == "run" \in DOMAIN cmd

Commands(entries) == [i \in DOMAIN entries |-> entries[i].run]

IsPrefix(a, b) == Len(a) <= Len(b) /\ a = SubSeq(b, 1, Len(a))

\* C16: execute_scripts runs its commands in list order; a command that
\* failed is the last one run and makes the result False; the result is
\* True only when every command of the list was run and none failed.
C16_FailFastInOrder ==
    /\ \A k \in 1..(Len(run_log) - 1) : run_log[k].ok
    /\ IsPrefix(Commands(SelectSeq(run_log, IsTopLevel)),
                Commands(SelectSeq(script, IsRun)))
    /\ (\E k \in DOMAIN run_log : ~run_log[k].ok) => x_result = "false"
    /\ x_result = "false" => (run_log # <<>> /\ ~run_log[Len(run_log)].ok)
    /\ x_result = "true" =>
           /\ \A k \in DOMAIN run_log : run_log[k].ok
           /\ Commands(SelectSeq(run_log, IsTopLevel))
                  = Commands(SelectSeq(script, IsRun))

\* The first command of the list of four has failed: neither the loop nor
\* the last command was run.
C16_Witness ==
    /\ script = NestedBlock
    /\ x_result = "false"
    /\ Len(run_log) = 1
    /\ iter_log = <<>>

\* C17: a command that failed in a loop body (at any depth) is the last
\* command run, no iteration begins after it, every frame is left and the
\* result is False.
C17_WhileBodyFailureAborts ==
    /\ [](\A k \in DOMAIN run_log :
             (~IsTopLevel(run_log[k]) /\ ~run_log[k].ok) =>
                 /\ k = Len(run_log)
                 /\ stack = <<>>
                 /\ x_result = "false")
    /\ [][x_result = "false" =>
             (run_log' = run_log /\ iter_log' = iter_log)]_vars

\* The command of the inner loop has failed in its first iteration, with
\* iterations of both loops and the last command still due.
C17_Witness ==
    /\ script = NestedBlock
    /\ x_result = "false"
    /\ Len(run_log) = 3
    /\ run_log[3].run = "inner %H"
    /\ Len(iter_log) = 2

\* C18: a step of the reloader thread (its position, its document or the
\* task list changes) leaves the ledger as it is.
C18_ReloadKeepsLedger ==
    [][(r_pc' # r_pc \/ r_idx' # r_idx \/ tasks' # tasks
            \/ yaml_data' # yaml_data) =>
          completed_tasks' = completed_tasks]_vars

\* A reload has cleared the list while the ledger holds A's success and B's
\* three failures.
C18_Witness ==
    /\ r_pc = "add"
    /\ tasks = <<>>
    /\ LedgerStatus("A") = "success"
    /\ LedgerStatus("B") = "failed"
    /\ Attempts(completed_tasks, "B") = DefaultMaxAttempts

\* C19: once handle_failure has found a name's count at its max_attempts,
\* execute_task is never invoked for that name again, reloads included.
C19_ExhaustedIsTerminal ==
    [][\A n \in gave_up : executions'[n] = executions[n]]_vars

\* The places of the scheduler loop.
LoopPlaces ==
    {"start", "tick", "iter", "exec_block", "exec_sub", "notify",
     "sleep_failure", "sleep"}

\* C20: an error raised by a task's block does not end the loop: the loop
\* stays in start_scheduler, the raise is one failed attempt of that name and
\* of no other, and the for-loop is where it was, on the same list, ready to
\* take the next task.
C20_ErrorsStayInTheTask ==
    /\ [](s_pc \in LoopPlaces)
    /\ [][(ExecutionEnds /\ last_run'.block = "raise") =>
             /\ s_pc' \in {"iter", "sleep_failure"}
             /\ LedgerStatus(CurTask.name)' = "failed"
             /\ Attempts(completed_tasks', CurTask.name)
                    = Attempts(completed_tasks, CurTask.name) + 1
             /\ \A n \in DOMAIN completed_tasks' \ {CurTask.name} :
                    /\ n \in DOMAIN completed_tasks
                    /\ completed_tasks'[n] = completed_tasks[n]
             /\ idx' = idx
             /\ IterList' = IterList]_vars

\* A's block has raised, the failure is in the ledger and the loop is about
\* to take the next task of the list.
C20_Witness ==
    /\ s_pc = "iter"
    /\ last_run = [name |-> "A", block |-> "raise", subs |-> <<>>]
    /\ LedgerStatus("A") = "failed"
    /\ idx < Len(IterList)

\* C21: the time of day changes only where the tick samples it, before the
\* first task of the tick is taken; execute_task is invoked for a scheduled
\* task only in a tick whose sample is one of the task's marks, and the
\* sample is still that mark while the task runs: a mark no tick sampled
\* starts no execution.
C21_NonCatchUp ==
    /\ [][current_time' # current_time =>
            (s_pc = "tick" /\ s_pc' = "iter" /\ idx' = 0)]_vars
    /\ [][executions' # executions =>
            LET task == IterList[idx + 1]
            IN  /\ current_time' = current_time
                /\ \/ task.time = TimeNone
                   \/ current_time \in Range(task.time)]_vars
    /\ [](s_pc \in {"exec_block", "exec_sub"} =>
            \/ CurTask.time = TimeNone
            \/ current_time \in Range(CurTask.time))

\* The scheduled task is run a second time, in a tick that sampled its mark.
C21_Witness ==
    /\ s_pc = "exec_sub"
    /\ CurTask.time = <<"06:00">>
    /\ current_time = "06:00"
    /\ executions["A"] = 2
    /\ Attempts(completed_tasks, "A") = 1

\* A step of the reloader thread, once start_scheduler has started it.
ReloaderMoves ==
    /\ r_pc # "unstarted"
    /\ r_pc' # r_pc \/ r_idx' # r_idx \/ tasks' # tasks \/ yaml_data' # yaml_data

\* C22: execute_task is invoked only by the loop between two tasks, when the
\* block and every subtask of the task before have ended, and for one task;
\* a block and a subtask never run together; a command is run only inside
\* execute_task; no step of the reloader thread runs or starts a command.
C22_OneCommandAtATime ==
    /\ [](s_pc = "exec_block" => sub_idx = 0)
    /\ [](s_pc = "exec_sub" => sub_idx \in 1..Len(CurTask.subtasks))
    /\ [][executions' # executions =>
            /\ s_pc = "iter" /\ sub_idx = 0 /\ s_pc' = "exec_block"
            /\ \E n \in Names : executions' = [executions EXCEPT ![n] = @ + 1]]_vars
    /\ [][(last_run'.block # last_run.block \/ last_run'.subs # last_run.subs) =>
            (s_pc \in {"iter", "exec_block", "exec_sub"}
             /\ (s_pc = "iter" => last_run' \in {NoRun, [NoRun EXCEPT !.name = last_run'.name]}))]_vars
    /\ [][ReloaderMoves =>
            UNCHANGED <<executions, last_run, s_pc, sub_idx, block_ok, idx>>]_vars

\* B's block runs after A's block and both subtasks have ended, while the
\* reloader thread is in the middle of a reload.
C22_Witness ==
    /\ s_pc = "exec_block"
    /\ CurTask.name = "B"
    /\ LedgerStatus("A") = "success"
    /\ executions["A"] = 1
    /\ notifications["A"] = 1
    /\ r_pc = "add"
    /\ iter_live = FALSE

\* C23: a reload that fails (the file cannot be read, an entry lacks its
\* name or block) ends that cycle alone: the reloader thread is never ended
\* by the error, so that it sleeps and reloads again.
C23_ReloadFailureIsolated == r_pc # "dead"

\* C24: the step in which a notification is not delivered changes no ledger
\* entry (status and count), gives nothing up and leaves the loop between
\* two tasks at the same place in the same list; a name whose notification
\* was not delivered keeps status success and is never executed again.
C24_NotificationFailureNotEscalated ==
    /\ [][unsent' # unsent =>
            /\ s_pc = "notify" /\ s_pc' = "iter"
            /\ completed_tasks' = completed_tasks
            /\ gave_up' = gave_up
            /\ executions' = executions
            /\ idx' = idx
            /\ IterList' = IterList]_vars
    /\ [][\A n \in unsent :
            executions'[n] = executions[n] /\ LedgerStatus(n)' = "success"]_vars
    /\ [](\A n \in unsent : LedgerStatus(n) = "success")

\* A's notification was not delivered and the loop runs the next task, B.
C24_Witness ==
    /\ "A" \in unsent
    /\ s_pc = "exec_block"
    /\ CurTask.name = "B"
    /\ completed_tasks["A"] = [status |-> "success"]
    /\ executions["A"] = 1

\* C25: when execute_subtask has returned for a subtask, the ledger holds an
\* entry under the subtask's own name: success if it returned True, failed
\* (with a count of at least one) if it returned False.
C25_SubtasksRecorded ==
    [][(s_pc = "exec_sub" /\ last_run'.subs # last_run.subs) =>
        LET name == CurTask.subtasks[sub_idx].name
            r    == last_run'.subs[Len(last_run'.subs)]
        IN  IF r = "ok"
            THEN LedgerStatus(name)' = "success"
            ELSE LedgerStatus(name)' = "failed"
                 /\ Attempts(completed_tasks', name) >= 1]_vars

AllDigits(text) == text # <<>> /\ \A i \in DOMAIN text : text[i] \in DigitClass

\* The lengths of the six precisions, year to second.
PrecisionLengths == {4, 6, 8, 10, 12, 14}

\* The fields a text of digits has by position, four digits of year and two
\* of each further field, a field the text does not reach at its minimum.
FixedWidthFields(text) ==
    LET field(from, default) ==
            IF Len(text) >= from + 1 THEN ToInt(text, from, from + 1) ELSE default
    IN  [year |-> ToInt(text, 1, 4), month |-> field(5, 1), day |-> field(7, 1),
         hour |-> field(9, 0), minute |-> field(11, 0), second |-> field(13, 0)]

\* C26: parse_date (and parse_expression, which hands a text of digits to it)
\* on a text of digits only: with 4, 6, 8, 10, 12 or 14 digits the result is
\* the instant of the fields read by position, the missing ones at their
\* minimum; with any other number of digits the call raises.
C26_DigitsResolveByLength ==
    (p_call \in {"parse_date", "parse_expression"} /\ AllDigits(p_text)) =>
        IF Len(p_text) \in PrecisionLengths
        THEN LET f == FixedWidthFields(p_text)
             IN  ValidFields(f) =>
                     p_out = Valid(Instant(f.year, f.month, f.day,
                                           f.hour, f.minute, f.second))
        ELSE p_out = Invalid

\* The place of the character after the name an expression begins with.
SignAt(text) == RunEnd(text, 1, NameClass) + 1

\* The text is a name, a sign and more.
HasSignedDuration(text) ==
    /\ SignAt(text) > 1
    /\ SignAt(text) <= Len(text)
    /\ text[SignAt(text)] \in {"+", "-"}

\* C27: parse_expression on a base that resolves, a sign and a duration: when
\* the duration is segments of days, hours, minutes and seconds in this
\* order (each may be missing), the result is the base plus or minus their
\* sum; when the duration holds a letter that is no unit, the call raises.
C27_DurationSegments ==
    (p_call = "parse_expression" /\ HasSignedDuration(p_text)) =>
        LET at      == SignAt(p_text)
            base    == parse_date(parser_now, SubSeq(p_text, 1, at - 1))
            days    == Segment(p_text, at + 1, "d")
            hours   == Segment(p_text, days.next, "h")
            minutes == Segment(p_text, hours.next, "m")
            seconds == Segment(p_text, minutes.next, "s")
            sum     == days.value * SecondsPerDay + hours.value * 3600
                         + minutes.value * 60 + seconds.value
        IN  base.ok =>
              IF seconds.next = Len(p_text) + 1
              THEN p_out = Valid(IF p_text[at] = "+" THEN base.value + sum
                                 ELSE base.value - sum)
              ELSE (\E i \in (at + 1)..Len(p_text) :
                       p_text[i] \in LetterChars \ {"d", "h", "m", "s"})
                   => p_out = Invalid

\* A text one of the first three rules resolves: a keyword, a date of digits
\* of one of the six lengths, a written date.
BaseRule(now, text) ==
    \/ KeywordLookup(now, text).ok
    \/ AllDigits(text) /\ Len(text) \in PrecisionLengths
    \/ dateutil_parse(text).ok

\* A text some rule matches: a base, or a base followed by a sign.
MatchesRule(now, text) ==
    \/ BaseRule(now, text)
    \/ \E k \in DOMAIN text :
          text[k] \in {"+", "-"} /\ BaseRule(now, SubSeq(text, 1, k - 1))

\* C28: parse_expression on a text no rule matches raises: it returns neither
\* None nor an instant.
C28_NoRuleIsAnError ==
    (p_call = "parse_expression" /\ ~MatchesRule(parser_now, p_text)) =>
        p_out = Invalid

\* C29: the for-loop takes the entries of its list one by one in list order,
\* each once in a tick, and execute_task starts only where an entry is taken.
\* The entry is tested against the ledger as it is at that moment, successes
\* written earlier in the same tick included: with every dependency at
\* success (and the time, status and attempts tests passed) it is executed
\* at once, and with a dependency not at success it is passed over, so that
\* an entry listed before its dependency can only run in a later tick.
C29_ListOrderLiveLedger ==
    /\ [][(s_pc = "iter" /\ idx' = idx + 1) =>
            LET task  == IterList[idx + 1]
                ready == /\ TimeMatches(task, current_time)
                         /\ LedgerStatus(task.name) # "success"
                         /\ check_max_attempts(task)
                met   == \A i \in DOMAIN task.depends_on :
                             LedgerStatus(task.depends_on[i]) = "success"
            IN  /\ (ready /\ met) =>
                      /\ s_pc' = "exec_block"
                      /\ executions'[task.name] = executions[task.name] + 1
                /\ ~met => (s_pc' = "iter" /\ executions' = executions)]_vars
    /\ [][executions' # executions => (s_pc = "iter" /\ idx' = idx + 1)]_vars
    /\ [][(s_pc # "tick" /\ idx' # idx) =>
            \/ idx' = idx + 1 /\ idx < Len(IterList)
            \/ idx' = 0 /\ idx >= Len(IterList) /\ s_pc' = "sleep"]_vars
    /\ [](\A n \in tick_done : LedgerStatus(n) = "success")

\* B, listed after A, is executed in the tick in which A succeeded.
C29_Witness ==
    /\ s_pc = "exec_block"
    /\ CurTask.name = "B"
    /\ CurTask.depends_on = <<"A">>
    /\ "A" \in tick_done
    /\ executions["B"] = 1

\* C30: on a list that is not reloaded, with no schedules, every dependency
\* in the list, no cycle and every command succeeding, no name is executed
\* twice, and from some moment on every task of the list has status success
\* and has been executed once.
C30_AllSucceedOnce ==
    /\ [](\A n \in Names : executions[n] <= 1)
    /\ <>[](\A i \in DOMAIN tasks :
              /\ LedgerStatus(tasks[i].name) = "success"
              /\ executions[tasks[i].name] = 1)

\* The list S, B, A, each depending on the next: the third tick is over and
\* all three have succeeded, each executed once.
C30_Witness ==
    /\ Len(tasks) = 3
    /\ tasks[1].name = "S" /\ tasks[1].depends_on = <<"B">>
    /\ s_pc = "sleep"
    /\ \A n \in Names : LedgerStatus(n) = "success" /\ executions[n] = 1

\* C31: in every execution of a task, the first and a retry alike, whose
\* block has not raised, the subtasks are run after the block, also when the
\* block returned False, and when execute_task returns every subtask of the
\* task has been run in this execution; a step of the subtask phase runs the
\* subtask at hand whatever its own time, depends_on and max_attempts are.
C31_SubtasksRunEveryAttempt ==
    /\ [][(s_pc = "exec_block" /\ last_run'.block = "fail"
              /\ CurTask.subtasks # <<>>) => s_pc' = "exec_sub"]_vars
    /\ [][(ExecutionEnds /\ last_run'.block # "raise") =>
              Len(last_run'.subs) = Len(CurTask.subtasks)]_vars
    /\ [][(s_pc = "exec_sub" /\ last_run' # last_run) =>
              Len(last_run'.subs) = sub_idx]_vars

\* The range a loop was written with.
LoopRange(loop) ==
    [from |-> parse_expression(parser_now, loop.condition.from).value,
     to   |-> parse_expression(parser_now, loop.condition.to).value,
     inc  |-> parse_time_expression(loop.condition.increment).value]

\* The instants of the iterations logged at a depth of nesting, and the
\* instants the runs of a command were formatted with.
RECURSIVE InstantsAt(_, _)
InstantsAt(log, depth) ==
    IF log = <<>> THEN <<>>
    ELSE IF Head(log).depth = depth
         THEN <<Head(log).at>> \o InstantsAt(Tail(log), depth)
         ELSE InstantsAt(Tail(log), depth)

RECURSIVE RunInstants(_, _)
RunInstants(log, command) ==
    IF log = <<>> THEN <<>>
    ELSE IF Head(log).run = command
         THEN <<Head(log).at>> \o RunInstants(Tail(log), command)
         ELSE RunInstants(Tail(log), command)

\* C32: when a block of nested loops has returned with every command
\* succeeding, the outer loop has made its count of iterations and the inner
\* loop, begun again from its own from in each of them, (outer count x inner
\* count) iterations; the inner command has run once in each of these,
\* formatted with the inner loop's instant, and the outer command once in
\* each outer iteration, formatted with the outer loop's instant.
C32_NestedWhileProduct ==
    (script \in NestedBlocks /\ x_result = "true") =>
        LET while(cmds) ==
                cmds[CHOOSE i \in DOMAIN cmds : "while" \in DOMAIN cmds[i]].while
            count(r) ==
                IF r.from < r.to THEN (r.to - r.from + r.inc - 1) \div r.inc ELSE 0
            o     == LoopRange(while(script))
            n     == LoopRange(while(while(script).do))
            no    == count(o)
            ni    == count(n)
            outer == InstantsAt(iter_log, 1)
            inner == InstantsAt(iter_log, 2)
            outerRuns == RunInstants(run_log, "outer %Y%m%d")
            innerRuns == RunInstants(run_log, "inner %H")
        IN  /\ Len(outer) = no
            /\ Len(inner) = no * ni
            /\ \A k \in 1..no : outer[k] = o.from + (k - 1) * o.inc
            /\ \A k \in 1..(no * ni) : inner[k] = n.from + ((k - 1) % ni) * n.inc
            /\ outerRuns = outer
            /\ innerRuns = inner

\* The block of two outer iterations of two inner iterations each has
\* returned: four runs of the inner command, at 00 and 06 hours twice over.
C32_Witness ==
    /\ script = NestedBlock
    /\ x_result = "true"
    /\ RunInstants(run_log, "inner %H") =
           << Instant(2024, 1, 1, 0, 0, 0), Instant(2024, 1, 1, 6, 0, 0),
              Instant(2024, 1, 1, 0, 0, 0), Instant(2024, 1, 1, 6, 0, 0) >>
    /\ RunInstants(run_log, "outer %Y%m%d") =
           << Instant(2024, 1, 1, 0, 0, 0), Instant(2024, 1, 2, 0, 0, 0) >>

\* C33: when parse_date has looked a month keyword up, the table computed
\* from the reference instant has start_of_month <= end_of_month <
\* beginning_of_next_month <= end_of_next_month, with end_of_month in the
\* month and year of the reference instant and beginning_of_next_month and
\* end_of_next_month in the calendar month that follows it.
C33_KeywordTableCalendarConsistent ==
    (p_call = "parse_date"
        /\ p_text \in {Kw_start_of_month, Kw_end_of_month,
                       Kw_beginning_of_next_month, Kw_end_of_next_month}) =>
        LET date(key) == KeywordLookup(parser_now, key).value
            ref       == Fields(parser_now)
            in(t, year, month) == Fields(t).year = year /\ Fields(t).month = month
            next_year  == IF ref.month = 12 THEN ref.year + 1 ELSE ref.year
            next_month == IF ref.month = 12 THEN 1 ELSE ref.month + 1
        IN  /\ p_out = KeywordLookup(parser_now, p_text)
            /\ date(Kw_start_of_month) <= date(Kw_end_of_month)
            /\ date(Kw_end_of_month) < date(Kw_beginning_of_next_month)
            /\ date(Kw_beginning_of_next_month) <= date(Kw_end_of_next_month)
            /\ in(date(Kw_end_of_month), ref.year, ref.month)
            /\ in(date(Kw_beginning_of_next_month), next_year, next_month)
            /\ in(date(Kw_end_of_next_month), next_year, next_month)

====
